---------------------------- MODULE Spec2Model ----------------------------
(***************************************************************************)
(* Model of streamlit_app.py: the numerical-differentiation error engine   *)
(* (calculate_errors, calculate_optimal_values), the st.cache_data wrapper *)
(* around calculate_errors, and the application flow of main().            *)
(*                                                                         *)
(* The program computes in IEEE-754 binary floating point.  The model      *)
(* keeps the format (sign, significand, exponent, round to nearest even,   *)
(* gradual underflow, overflow to infinity, NaN) and the exponent range of *)
(* a double, and scales the significand down from 53 to Prec bits so that  *)
(* every intermediate integer fits the model checker's integers.           *)
(***************************************************************************)
EXTENDS Integers, Sequences, FiniteSets, TLC

\* Bits of significand of the modelled floats (a double has 53).
Prec == 5

\* Largest and smallest normal binary exponent of a double.
EMax == 2^10 - 1
EMin == 2 - 2^10

\* Exponent of the last significand bit of the smallest floats (subnormals).
EMinSub == EMin - Prec + 1

\* Bits of the working precision used for pow() and 10**y.
WorkBits == Prec + 9

Max(a, b) == IF a >= b THEN a ELSE b
Min(a, b) == IF a <= b THEN a ELSE b
Abs(a) == IF a >= 0 THEN a ELSE -a

RECURSIVE BitLen(_)
\* Number of bits of the natural number m (0 for 0).
BitLen(m) == IF m = 0 THEN 0 ELSE 1 + BitLen(m \div 2)

(***************************************************************************)
(* Float values.  k = "num": (-1)^s * m * 2^e with m < 2^Prec, normalised  *)
(* (m >= 2^(Prec-1)) unless subnormal (e = EMinSub) or zero (m = 0, e = 0).*)
(* k = "inf": signed infinity.  k = "nan".  k = "complex": the complex     *)
(* number Python's ** returns for a negative base and fractional exponent. *)
(***************************************************************************)
Num(s, m, e) == [k |-> "num", s |-> s, m |-> m, e |-> e]
Zero(s) == Num(s, 0, 0)
Inf(s) == [k |-> "inf", s |-> s, m |-> 0, e |-> 0]
NaN == [k |-> "nan", s |-> 0, m |-> 0, e |-> 0]
Complex == [k |-> "complex", s |-> 0, m |-> 0, e |-> 0]

IsNum(x) == x.k = "num"
IsZero(x) == x.k = "num" /\ x.m = 0
IsFinitePos(x) == x.k = "num" /\ x.m > 0 /\ x.s = 0
IsNormal(x) == x.k = "num" /\ x.m >= 2^(Prec - 1)

Pack(s, m, lsb) ==
    IF m = 0 THEN Zero(s)
    ELSE IF lsb > EMax - Prec + 1 THEN Inf(s)
    ELSE Num(s, m, lsb)

\* The float nearest to (-1)^s * (m + f) * 2^e, ties to even, where f = 0 when
\* sticky is FALSE and 0 < f < 1 when it is TRUE (then m has >= Prec + 2 bits).
RoundPack(s, m, e, sticky) ==
    IF m = 0 THEN Zero(s)
    ELSE LET L == BitLen(m)
             lsb == Max(e + L - Prec, EMinSub)
             sh == lsb - e
         IN  IF sh <= 0 THEN Pack(s, m * 2^(-sh), lsb)
             ELSE IF sh > L + 1 THEN Zero(s)
             ELSE LET q == m \div 2^sh
                      r == m % 2^sh
                      half == 2^(sh - 1)
                      up == r > half \/ (r = half /\ (sticky \/ q % 2 = 1))
                      m2 == IF up THEN q + 1 ELSE q
                  IN  IF m2 = 2^Prec THEN Pack(s, 2^(Prec - 1), lsb + 1)
                      ELSE Pack(s, m2, lsb)

\* The float of the integer n and of the dyadic number m * 2^e (m >= 0).
FromInt(n) == RoundPack(IF n < 0 THEN 1 ELSE 0, Abs(n), 0, FALSE)
Flt(m, e) == RoundPack(0, m, e, FALSE)

Xor(a, b) == (a + b) % 2

FNeg(x) == IF x.k \in {"num", "inf"} THEN [x EXCEPT !.s = 1 - x.s] ELSE x
FAbs(x) == IF x.k \in {"num", "inf"} THEN [x EXCEPT !.s = 0] ELSE x

\* x * y
FMul(x, y) ==
    IF x.k = "nan" \/ y.k = "nan" THEN NaN
    ELSE IF x.k = "inf" \/ y.k = "inf"
         THEN IF IsZero(x) \/ IsZero(y) THEN NaN ELSE Inf(Xor(x.s, y.s))
    ELSE RoundPack(Xor(x.s, y.s), x.m * y.m, x.e + y.e, FALSE)

\* x / y with IEEE semantics (numpy): a division by zero gives inf or nan.
FDiv(x, y) ==
    IF x.k = "nan" \/ y.k = "nan" THEN NaN
    ELSE IF x.k = "inf" THEN (IF y.k = "inf" THEN NaN ELSE Inf(Xor(x.s, y.s)))
    ELSE IF y.k = "inf" THEN Zero(Xor(x.s, y.s))
    ELSE IF y.m = 0 THEN (IF x.m = 0 THEN NaN ELSE Inf(Xor(x.s, y.s)))
    ELSE IF x.m = 0 THEN Zero(Xor(x.s, y.s))
    ELSE LET sh == Max(0, Prec + 2 + BitLen(y.m) - BitLen(x.m))
             n == x.m * 2^sh
         IN  RoundPack(Xor(x.s, y.s), n \div y.m, x.e - sh - y.e, n % y.m # 0)

\* x + y
FAdd(x, y) ==
    IF x.k = "nan" \/ y.k = "nan" THEN NaN
    ELSE IF x.k = "inf"
         THEN IF y.k = "inf" /\ y.s # x.s THEN NaN ELSE x
    ELSE IF y.k = "inf" THEN y
    ELSE IF x.m = 0 THEN (IF y.m = 0 THEN Zero(IF x.s = 1 /\ y.s = 1 THEN 1 ELSE 0) ELSE y)
    ELSE IF y.m = 0 THEN x
    ELSE LET big == IF x.e >= y.e THEN x ELSE y
             sml == IF x.e >= y.e THEN y ELSE x
             d == big.e - sml.e
         IN  IF d > Prec + 2
             THEN \* sml is below the guard bits of big: it only decides the rounding
                  IF sml.s = big.s THEN RoundPack(big.s, big.m * 4, big.e - 2, TRUE)
                  ELSE RoundPack(big.s, big.m * 4 - 1, big.e - 2, TRUE)
             ELSE LET v == (IF big.s = 1 THEN -1 ELSE 1) * big.m * 2^d
                           + (IF sml.s = 1 THEN -1 ELSE 1) * sml.m
                  IN  IF v = 0 THEN Zero(0)
                      ELSE RoundPack(IF v < 0 THEN 1 ELSE 0, Abs(v), sml.e, FALSE)

\* x - y
FSub(x, y) == FAdd(x, FNeg(y))

(***************************************************************************)
(* Square root, pow and sine.  numpy's sqrt is correctly rounded; libm's   *)
(* pow and sin are accurate to within one unit in the last place, and are  *)
(* modelled by a computation in WorkBits bits (pow) or in fixed point      *)
(* (sin) whose result is then rounded to the float format.                 *)
(***************************************************************************)
RECURSIVE ISqrtRec(_, _, _)
ISqrtRec(n, r, b) ==
    IF b = 0 THEN r
    ELSE IF r + b <= n \div (r + b) THEN ISqrtRec(n, r + b, b \div 2)
    ELSE ISqrtRec(n, r, b \div 2)

\* floor(sqrt(n)) for 0 <= n < 2^31
ISqrt(n) == ISqrtRec(n, 0, 2^15)

\* np.sqrt(x): the correctly rounded square root; nan for a negative x.
FSqrt(x) ==
    IF x.k = "nan" THEN NaN
    ELSE IF IsZero(x) THEN x
    ELSE IF x.s = 1 THEN NaN
    ELSE IF x.k = "inf" THEN x
    ELSE LET t0 == 2 * Prec + 3 - BitLen(x.m)
             t == IF (x.e - t0) % 2 = 0 THEN t0 ELSE t0 + 1
             n == x.m * 2^t
             r == ISqrt(n)
         IN  RoundPack(0, r, (x.e - t) \div 2, r * r # n)

\* A positive number m * 2^e carried with m of exactly WorkBits bits.
WNorm(m, e) ==
    LET L == BitLen(m)
    IN  IF L > WorkBits THEN [m |-> m \div 2^(L - WorkBits), e |-> e + (L - WorkBits)]
        ELSE [m |-> m * 2^(WorkBits - L), e |-> e - (WorkBits - L)]

WOne == WNorm(1, 0)
WMul(a, b) == WNorm(a.m * b.m, a.e + b.e)
WDiv(a, b) == WNorm((a.m * 2^WorkBits) \div b.m, a.e - WorkBits - b.e)
WSqrt(a) ==
    LET t == IF (a.e - WorkBits) % 2 = 0 THEN WorkBits ELSE WorkBits - 1
    IN  WNorm(ISqrt(a.m * 2^t), (a.e - t) \div 2)

RECURSIVE WPowInt(_, _)
\* b^n for a natural number n
WPowInt(b, n) ==
    IF n = 0 THEN WOne
    ELSE LET h == WPowInt(b, n \div 2)
             sq == WMul(h, h)
         IN  IF n % 2 = 1 THEN WMul(sq, b) ELSE sq

RECURSIVE WPowFrac(_, _, _, _)
\* acc * root^(n / 2^k) for 0 <= n < 2^k: one square root per bit of the exponent
WPowFrac(root, n, k, acc) ==
    IF n = 0 THEN acc
    ELSE LET r == WSqrt(root)
             bit == n \div 2^(k - 1)
         IN  WPowFrac(r, n % 2^(k - 1), k - 1, IF bit = 1 THEN WMul(acc, r) ELSE acc)

\* pow(x, y) for a finite x > 0 and a finite y
Pow(x, y) ==
    LET b == WNorm(x.m, x.e)
        int == IF y.e >= 0 THEN y.m * 2^y.e ELSE y.m \div 2^(-y.e)
        n == IF y.e >= 0 THEN 0 ELSE y.m % 2^(-y.e)
        k == IF y.e >= 0 THEN 0 ELSE -y.e
        p == WPowFrac(b, n, k, WPowInt(b, int))
        r == IF y.s = 1 THEN WDiv(WOne, p) ELSE p
    IN  RoundPack(0, r.m, r.e, TRUE)

\* Python's float ** float for the exponents the program uses (0 < y < 1):
\* a negative base yields a complex number, not an exception.
PyPow(x, y) ==
    IF x.k = "nan" THEN NaN
    ELSE IF IsZero(x) THEN Zero(0)
    ELSE IF x.s = 1 THEN Complex
    ELSE IF x.k = "inf" THEN x
    ELSE Pow(x, y)

\* 2*pi, pi and pi/2 in units of 2^-16
TwoPiFix == 411775
PiFix == 205887
HalfPiFix == 102944

\* Largest binary exponent of an argument reduced modulo 2*pi in fixed point.
SinRedExp == 9

\* sin(2^600) = -0.3456161123444048, the sine of the one argument beyond the
\* reduction range that the input sets produce (1 + 2^600 = 2^600 in floats).
SinOfHuge == RoundPack(1, 371102475, -30, FALSE)

RECURSIVE SinTaylor(_, _, _, _)
\* sum of the Taylor series of sin from the term t of index k on, in units of
\* 2^-14; r2 is the square of the argument and pos tells the sign of t
SinTaylor(t, r2, k, pos) ==
    IF t = 0 THEN 0
    ELSE (IF pos THEN t ELSE -t)
         + SinTaylor(((t * r2) \div 2^14) \div ((2 * k + 2) * (2 * k + 3)), r2, k + 1, ~pos)

\* np.sin(x)
Sin(x) ==
    IF x.k # "num" THEN NaN
    ELSE IF x.m = 0 THEN x
    ELSE LET ex == x.e + BitLen(x.m)
         IN  IF ex <= -(Prec \div 2) - 1 THEN x
             ELSE IF ex > SinRedExp THEN (IF x.s = 1 THEN FNeg(SinOfHuge) ELSE SinOfHuge)
             ELSE LET X == IF x.e + 16 >= 0 THEN x.m * 2^(x.e + 16)
                           ELSE x.m \div 2^(-(x.e + 16))
                      R0 == X % TwoPiFix
                      neg == R0 > PiFix
                      R1 == IF neg THEN TwoPiFix - R0 ELSE R0
                      R2 == IF R1 > HalfPiFix THEN PiFix - R1 ELSE R1
                      r == (Max(R2, 0) + 2) \div 4
                      v == SinTaylor(r, (r * r) \div 2^14, 0, TRUE)
                  IN  RoundPack(IF neg THEN 1 - x.s ELSE x.s, Max(v, 0), -14, FALSE)

\* np.cos(1.0) = 0.5403023058681398
CosOne == RoundPack(0, 580145183, -30, FALSE)

(***************************************************************************)
(* The program's numeric literals.                                         *)
(***************************************************************************)
One == FromInt(1)
Two == FromInt(2)
Three == FromInt(3)
Six == FromInt(6)
Ten == FromInt(10)

\* An integer as an exact operand of FMul and FDiv (a double holds every
\* integer the program uses exactly; Prec bits would round 99).
IntVal(n) == Num(IF n < 0 THEN 1 ELSE 0, Abs(n), 0)

\* The float literals 0.5, 1/3 and 2/3 of calculate_optimal_values.
Half == FDiv(One, Two)
Third == FDiv(One, Three)
TwoThirds == FDiv(Two, Three)

\* exact = np.cos(1.0)
exact == CosOne

(***************************************************************************)
(* calculate_errors.  isArr tells whether h_values is a float64 ndarray    *)
(* (elements np.float64: IEEE arithmetic that never raises) or a sequence  *)
(* of Python floats (float / 0.0 raises ZeroDivisionError and an           *)
(* overflowing float ** 2 raises OverflowError).  eps is a Python float.   *)
(***************************************************************************)

\* Faulty variants of the bounds, which the properties at the end must tell
\* from the program's: the central truncation bound with the forward
\* formula's divisor, and the central rounding bound as a product.
Trunc2HalfSquare(h) == FDiv(FMul(h, h), Two)
Round2Product(h, eps) == FMul(eps, h)

\* The bounds one pass of the loop appends to trunc1, round1, trunc2, round2
Trunc1(h) == FDiv(h, Two)
Round1(h, eps) == FDiv(FMul(Two, eps), h)
Trunc2(h) == FDiv(FMul(h, h), Six)
Round2(h, eps) == FDiv(eps, h)

\* The actual errors one pass appends to err1 and err2
Err1(h) == FAbs(FSub(FDiv(FSub(Sin(FAdd(One, h)), Sin(One)), h), exact))
Err2(h) == FAbs(FSub(FDiv(FSub(Sin(FAdd(One, h)), Sin(FSub(One, h))), FMul(Two, h)), exact))

\* The exception a pass raises for a Python float h: 2*eps/h divides by a
\* zero h, and h**2 overflows.  The operations on np.float64 values
\* (approx1, approx2, and every operation when h is an array element) warn
\* and carry on.
Raises(h) ==
    IF IsZero(h) THEN "ZeroDivisionError"
    ELSE IF IsNum(h) /\ FMul(h, h).k = "inf" THEN "OverflowError"
    ELSE "none"

\* One pass of the loop body for step size h: the exception it raises
\* ("none" if it completes) and the values it appends to the six series.
ErrStep(h, eps, isArr) ==
    [exc |-> IF isArr THEN "none" ELSE Raises(h),
     err1 |-> Err1(h),
     trunc1 |-> Trunc1(h),
     round1 |-> Round1(h, eps),
     err2 |-> Err2(h),
     trunc2 |-> Trunc2(h),
     round2 |-> Round2(h, eps)]

\* Python's None, and the results dictionary with its seven series.
None ==
    [kind |-> "None", h |-> <<>>, err1 |-> <<>>, err2 |-> <<>>,
     trunc1 |-> <<>>, trunc2 |-> <<>>, round1 |-> <<>>, round2 |-> <<>>]

\* Faulty variant: each pass inserts at the front of its series.
ResultsNewestFirst(hs, steps) ==
    [kind |-> "dict", h |-> hs,
     err1 |-> [i \in 1..Len(hs) |-> steps[Len(hs) + 1 - i].err1],
     err2 |-> [i \in 1..Len(hs) |-> steps[Len(hs) + 1 - i].err2],
     trunc1 |-> [i \in 1..Len(hs) |-> steps[Len(hs) + 1 - i].trunc1],
     trunc2 |-> [i \in 1..Len(hs) |-> steps[Len(hs) + 1 - i].trunc2],
     round1 |-> [i \in 1..Len(hs) |-> steps[Len(hs) + 1 - i].round1],
     round2 |-> [i \in 1..Len(hs) |-> steps[Len(hs) + 1 - i].round2]]

Results(hs, steps) ==
    [kind |-> "dict", h |-> hs,
     err1 |-> [i \in 1..Len(hs) |-> steps[i].err1],
     err2 |-> [i \in 1..Len(hs) |-> steps[i].err2],
     trunc1 |-> [i \in 1..Len(hs) |-> steps[i].trunc1],
     trunc2 |-> [i \in 1..Len(hs) |-> steps[i].trunc2],
     round1 |-> [i \in 1..Len(hs) |-> steps[i].round1],
     round2 |-> [i \in 1..Len(hs) |-> steps[i].round2]]

\* st.error(f"Error occurred during calculations: {e}")
ErrorElement(exc) == [type |-> "error", text |-> exc]

\* What the try/except of calculate_errors yields once every pass of the loop
\* is known: the first pass that raises ends the loop, and the handler shows
\* the exception with st.error and returns None; otherwise the dictionary is
\* returned.  Yields the returned value and the elements sent to the page.
TryExcept(hs, steps) ==
    LET bad == {i \in 1..Len(hs) : steps[i].exc # "none"}
    IN  IF bad = {}
        THEN [ret |-> Results(hs, steps), shown |-> <<>>]
        ELSE LET first == CHOOSE i \in bad : \A j \in bad : i <= j
             IN  [ret |-> None, shown |-> <<ErrorElement(steps[first].exc)>>]

\* The body of calculate_errors: the loop over h_values in order, inside
\* try/except.
CalculateErrorsBody(hs, eps, isArr) ==
    TryExcept(hs, [i \in 1..Len(hs) |-> ErrStep(hs[i], eps, isArr)])

\* The key st.cache_data derives from the arguments: the content of
\* h_values with its type, and eps.
CacheKey(hs, eps, isArr) == <<hs, eps, isArr>>

CacheHit(store, key) == \E c \in store : c.key = key

\* A hit replays the stored return value and the stored page elements.
CacheReplay(store, key) ==
    LET c == CHOOSE c \in store : c.key = key
    IN  [ret |-> c.ret, shown |-> c.shown, store |-> store]

\* A miss stores what the body returned and showed.
CacheStore(store, key, r) ==
    [ret |-> r.ret, shown |-> r.shown,
     store |-> store \cup {[key |-> key, ret |-> r.ret, shown |-> r.shown]}]

\* calculate_errors as decorated with @st.cache_data.
calculate_errors(store, hs, eps, isArr) ==
    IF CacheHit(store, CacheKey(hs, eps, isArr))
    THEN CacheReplay(store, CacheKey(hs, eps, isArr))
    ELSE CacheStore(store, CacheKey(hs, eps, isArr), CalculateErrorsBody(hs, eps, isArr))

(***************************************************************************)
(* calculate_optimal_values: closed forms in eps, no validation.           *)
(***************************************************************************)
\* Python's x / y where x may be the complex result of **
PyDiv(x, y) == IF x.k = "complex" THEN Complex ELSE FDiv(x, y)

\* Faulty variant: the central step size with the forward formula's exponent.
OptimalSquareRoots(eps) ==
    [forward |-> [h_opt |-> PyPow(FMul(Two, eps), Half),
                  min_error |-> FDiv(FSqrt(FMul(Two, eps)), Two)],
     central |-> [h_opt |-> PyPow(FMul(Three, eps), Half),
                  min_error |-> PyDiv(PyPow(FMul(Three, eps), TwoThirds), Six)]]

calculate_optimal_values(eps) ==
    [forward |-> [h_opt |-> PyPow(FMul(Two, eps), Half),
                  min_error |-> FDiv(FSqrt(FMul(Two, eps)), Two)],
     central |-> [h_opt |-> PyPow(FMul(Three, eps), Third),
                  min_error |-> PyDiv(PyPow(FMul(Three, eps), TwoThirds), Six)]]

NoOptimal ==
    [forward |-> [h_opt |-> NaN, min_error |-> NaN],
     central |-> [h_opt |-> NaN, min_error |-> NaN]]

(***************************************************************************)
(* np.logspace(start, stop, num) = 10.0 ** np.linspace(start, stop, num),  *)
(* for num >= 2.  linspace computes step = (stop - start) / (num - 1) and  *)
(* y[i] = i * step + start, and then sets the last element to stop.        *)
(***************************************************************************)
LinStep(start, stop, num) == FDiv(FSub(stop, start), IntVal(num - 1))

LinspaceBy(start, stop, num, step) ==
    [i \in 1..num |-> IF i = num THEN stop ELSE FAdd(FMul(IntVal(i - 1), step), start)]

Linspace(start, stop, num) == LinspaceBy(start, stop, num, LinStep(start, stop, num))

PowerOfTen(ys) == [i \in 1..Len(ys) |-> Pow(Ten, ys[i])]

\* Faulty variant: the exponents themselves, not the powers of ten.
LogspaceNoPower(start, stop, num) == Linspace(start, stop, num)

Logspace(start, stop, num) == PowerOfTen(Linspace(start, stop, num))

(***************************************************************************)
(* get_user_inputs: the ranges of the sidebar controls.                    *)
(***************************************************************************)
\* st.slider("Minimum step size (10^-x)", 1, 16, 1) and its twin for h_max
ExpMin == 1
ExpMax == 16
\* st.slider("Number of points", 10, 100, 50)
PointsMin == 10
PointsMax == 100
\* st.number_input("Machine epsilon", 1e-16, 1e-10, 2.22e-16): the floats
\* nearest to the two ends, and to the default (2^-52 = 2.2204e-16)
EpsLow == Pow(Ten, FromInt(-16))
EpsHigh == Pow(Ten, FromInt(-10))
EpsUnit == Flt(1, -52)

\* The control values the runs of main() draw.
ExpChoices == {ExpMin, ExpMax}
PointsChoices == {PointsMin, PointsMax}
EpsChoices == {EpsLow, EpsUnit, EpsHigh}

get_user_inputs(h_min, h_max, num_points, eps) ==
    [h_min |-> h_min, h_max |-> h_max, num_points |-> num_points, eps |-> eps]

(***************************************************************************)
(* create_error_plot(data, method): the figure drawn from data['h'] and    *)
(* the three series of the method.  Subscripting None raises TypeError.    *)
(***************************************************************************)
create_error_plot(data, method) ==
    IF data.kind = "None" THEN [type |-> "exception", text |-> "TypeError"]
    ELSE [type |-> "plot",
          title |-> IF method = "forward" THEN "Forward Difference Formula (1)"
                    ELSE "Central Difference Formula (2)",
          x |-> data.h,
          traces |-> IF method = "forward" THEN <<data.err1, data.trunc1, data.round1>>
                     ELSE <<data.err2, data.trunc2, data.round2>>]

(***************************************************************************)
(* State.                                                                  *)
(***************************************************************************)
VARIABLES
    pc,        \* where main() stands; "idle" when the functions are called directly
    inputs,    \* the dictionary get_user_inputs returned to main(); a direct
               \* caller's eps is kept in its eps field
    call,      \* the last call of a function: its name and its arguments as passed
    h_values,  \* the caller's step-size sequence, as it is after the call
    results,   \* what the last calculate_errors call returned
    optimal,   \* what the last calculate_optimal_values call returned
    cache,     \* the entries st.cache_data holds for calculate_errors
    ui         \* the elements sent to the page by the last direct call, or by
               \* the current run of main()

vars == <<pc, inputs, call, h_values, results, optimal, cache, ui>>

\* Neither function ends by raising: calculate_errors catches every
\* exception of its loop, and calculate_optimal_values has no operation that
\* raises on a float.  Every call's outcome is "returned".
NoCall == [fn |-> "none", hs |-> <<>>, eps |-> NaN, isArr |-> FALSE, outcome |-> "none"]
NoInputs == [h_min |-> 0, h_max |-> 0, num_points |-> 0, eps |-> NaN]

\* Longest step-size sequence a direct call passes.
MaxLen == 2

\* Most entries the cache is let grow to (st.cache_data itself is unbounded).
MaxCache == 1

RECURSIVE SeqsUpTo(_, _)
\* All sequences over S of length at most n
SeqsUpTo(S, n) ==
    IF n = 0 THEN {<<>>}
    ELSE LET shorter == SeqsUpTo(S, n - 1)
         IN  shorter \cup {Append(q, x) : q \in shorter, x \in S}

\* Step sizes drawn by direct calls: a negative one, zero, an ordinary one
\* (about 1e-5) and one whose square overflows.
HNeg == FNeg(Flt(1, -10))
HZero == Zero(0)
HSmall == Flt(5, -19)
HHuge == Flt(1, 600)
HValues == {HNeg, HZero, HSmall, HHuge}

\* eps drawn by direct calls: zero, a negative one and the unit roundoff 2^-52.
EpsValues == {Zero(0), FNeg(EpsUnit), EpsUnit}

HSeqs == SeqsUpTo(HValues, MaxLen)

Init ==
    /\ pc = "idle"
    /\ inputs = NoInputs
    /\ call = NoCall
    /\ h_values = <<>>
    /\ results = None
    /\ optimal = NoOptimal
    /\ cache = {}
    /\ ui = <<>>

\* The caller receives what calculate_errors returned; what it showed is
\* added to the page, and the cache keeps its entry.
Returned(r, page) ==
    /\ results' = r.ret
    /\ ui' = page \o r.shown
    /\ cache' = r.store

\* A caller runs calculate_errors(hs, eps) to completion.
CallErrors(hs, eps, isArr) ==
    /\ pc = "idle"
    /\ CacheHit(cache, CacheKey(hs, eps, isArr)) \/ Cardinality(cache) < MaxCache
    /\ Returned(calculate_errors(cache, hs, eps, isArr), <<>>)
    /\ call' = [fn |-> "calculate_errors", hs |-> hs, eps |-> eps, isArr |-> isArr,
                outcome |-> "returned"]
    /\ h_values' = hs
    /\ UNCHANGED <<pc, inputs, optimal>>

\* A caller runs calculate_optimal_values(eps) to completion.
CallOptimal(eps) ==
    /\ pc = "idle"
    /\ optimal' = calculate_optimal_values(eps)
    /\ ui' = <<>>
    /\ call' = [fn |-> "calculate_optimal_values", hs |-> <<>>, eps |-> eps, isArr |-> FALSE,
                outcome |-> "returned"]
    /\ UNCHANGED <<pc, inputs, h_values, results, cache>>

CallCalculateErrors ==
    \E hs \in HSeqs, eps \in EpsValues, isArr \in BOOLEAN : CallErrors(hs, eps, isArr)

CallCalculateOptimalValues ==
    \E eps \in EpsValues : CallOptimal(eps)

Next == CallCalculateErrors \/ CallCalculateOptimalValues

Spec == Init /\ [][Next]_vars

(***************************************************************************)
(* main(): one run of the script, and the rerun Streamlit starts when the  *)
(* user changes a control.  The cache outlives the runs.                   *)
(***************************************************************************)
InitMain ==
    /\ pc = "start"
    /\ inputs = NoInputs
    /\ call = NoCall
    /\ h_values = <<>>
    /\ results = None
    /\ optimal = NoOptimal
    /\ cache = {}
    /\ ui = <<>>

\* inputs = get_user_inputs()
GetUserInputs ==
    /\ pc = "start"
    /\ \E h_min \in ExpChoices, h_max \in ExpChoices,
          num_points \in PointsChoices, eps \in EpsChoices :
          inputs' = get_user_inputs(h_min, h_max, num_points, eps)
    /\ pc' = "inputs"
    /\ UNCHANGED <<call, h_values, results, optimal, cache, ui>>

\* results = calculate_errors(h_values, inputs['eps']) for the array hs
MainErrors(hs) ==
    /\ CacheHit(cache, CacheKey(hs, inputs.eps, TRUE)) \/ Cardinality(cache) < MaxCache
    /\ Returned(calculate_errors(cache, hs, inputs.eps, TRUE), ui)
    /\ call' = [fn |-> "calculate_errors", hs |-> hs, eps |-> inputs.eps, isArr |-> TRUE,
                outcome |-> "returned"]
    /\ h_values' = hs

\* h_values = np.logspace(-inputs['h_max'], -inputs['h_min'], inputs['num_points'])
\* results = calculate_errors(h_values, inputs['eps'])
ComputeErrors ==
    /\ pc = "inputs"
    /\ MainErrors(Logspace(FromInt(-inputs.h_max), FromInt(-inputs.h_min),
                           inputs.num_points))
    /\ pc' = "computed"
    /\ UNCHANGED <<inputs, optimal>>

\* st.pyplot(create_error_plot(results, method)); the TypeError of a None
\* result is not caught and ends the run.
Plot(fig, after) ==
    /\ ui' = Append(ui, fig)
    /\ pc' = IF fig.type = "exception" THEN "crashed" ELSE after
    /\ UNCHANGED <<inputs, call, h_values, results, optimal, cache>>

PlotForward ==
    /\ pc = "computed"
    /\ Plot(create_error_plot(results, "forward"), "forward drawn")

PlotCentral ==
    /\ pc = "forward drawn"
    /\ Plot(create_error_plot(results, "central"), "central drawn")

\* optimal = calculate_optimal_values(inputs['eps']) and the text after it
ShowOptimal ==
    /\ pc = "central drawn"
    /\ optimal' = calculate_optimal_values(inputs.eps)
    /\ call' = [fn |-> "calculate_optimal_values", hs |-> <<>>, eps |-> inputs.eps,
                isArr |-> FALSE, outcome |-> "returned"]
    /\ pc' = "done"
    /\ UNCHANGED <<inputs, h_values, results, cache, ui>>

\* The user changes a control: the script starts again from the top with an
\* empty page; only the cache is kept.
Rerun ==
    /\ pc \notin {"idle", "start"}
    /\ pc' = "start"
    /\ inputs' = NoInputs
    /\ call' = NoCall
    /\ h_values' = <<>>
    /\ results' = None
    /\ optimal' = NoOptimal
    /\ ui' = <<>>
    /\ UNCHANGED cache

NextMain ==
    \/ GetUserInputs
    \/ ComputeErrors
    \/ PlotForward
    \/ PlotCentral
    \/ ShowOptimal
    \/ Rerun

SpecMain == InitMain /\ [][NextMain]_vars

(***************************************************************************)
(* Direct calls with arguments fixed beforehand: a caller holds one        *)
(* step-size sequence and one eps, and applies the two functions to them.  *)
(* In SpecNum the arguments range over dense sets of floats and the        *)
(* sequence is a float64 array; in SpecSeq they range over HSeqs and       *)
(* EpsValues and the sequence is passed as an array or as a list of Python *)
(* floats.                                                                 *)
(***************************************************************************)
\* Every normal float of one binade: m * 2^e for the Prec-bit significands m
Binade(e) == {Flt(m, e) : m \in 2^(Prec - 1) .. 2^Prec - 1}

\* The float next below a positive normal float
Pred(x) ==
    IF x.m = 2^(Prec - 1) THEN Num(0, 2^Prec - 1, x.e - 1) ELSE Num(0, x.m - 1, x.e)

RECURSIVE Chain(_, _)
\* n consecutive floats, downwards from x
Chain(x, n) == IF n = 0 THEN <<>> ELSE <<x>> \o Chain(Pred(x), n - 1)

\* Step sizes of the single-record calls
DenseH == Binade(-16)
\* eps of one binade, and of three consecutive binades
BinadeEps == Binade(-12)
DenseEps == Binade(-12) \cup Binade(-11) \cup Binade(-10)

\* Sweeps of PointsMin step sizes: runs of adjacent floats, and log-spaced
\* sweeps between powers of ten and between nearby exponents.
ChainSweeps == {Chain(x, PointsMin) : x \in DenseH}
LogSweeps ==
    {Logspace(FromInt(-a), FromInt(-b), PointsMin) : a \in {1, 2, 16}, b \in {1, 2, 16}}
    \cup {Logspace(FNeg(Flt(a, -2)), FNeg(Flt(b, -2)), PointsMin) : a \in 4..6, b \in 4..6}

NumDraws ==
    {[hs |-> <<h>>, eps |-> e] : h \in DenseH, e \in DenseEps}
    \cup {[hs |-> q, eps |-> e] : q \in ChainSweeps \cup LogSweeps, e \in BinadeEps}

SeqDraws == {[hs |-> q, eps |-> e] : q \in HSeqs, e \in EpsValues}

\* The caller holds the arguments d and has called nothing yet.
Holding(d) ==
    /\ pc = "idle"
    /\ h_values = d.hs
    /\ inputs = [NoInputs EXCEPT !.eps = d.eps]
    /\ call = NoCall
    /\ results = None
    /\ optimal = NoOptimal
    /\ cache = {}
    /\ ui = <<>>

InitNum == \E d \in NumDraws : Holding(d)
InitSeq == \E d \in SeqDraws : Holding(d)

\* calculate_errors(h_values, eps) on the caller's array
ErrorsOfSweep == CallErrors(h_values, inputs.eps, TRUE)

\* calculate_errors(h_values, eps) on the caller's list of Python floats
ErrorsOfList == CallErrors(h_values, inputs.eps, FALSE)

\* calculate_optimal_values(eps)
OptimalOfEps == CallOptimal(inputs.eps)

NextNum == ErrorsOfSweep \/ OptimalOfEps
NextSeq == ErrorsOfSweep \/ ErrorsOfList \/ OptimalOfEps

SpecNum == InitNum /\ [][NextNum]_vars
SpecSeq == InitSeq /\ [][NextSeq]_vars

(***************************************************************************)
(* Properties.  Exact arithmetic on non-negative dyadic numbers m * 2^e    *)
(* is used to compare float results with the real-number formulas.         *)
(***************************************************************************)
Dy(x) == [m |-> x.m, e |-> x.e]
DTop(a) == a.e + BitLen(a.m)
DLeq(a, b) ==
    IF a.m = 0 THEN TRUE
    ELSE IF b.m = 0 THEN FALSE
    ELSE IF DTop(a) # DTop(b) THEN DTop(a) < DTop(b)
    ELSE LET lo == Min(a.e, b.e)
         IN  a.m * 2^(a.e - lo) <= b.m * 2^(b.e - lo)
DEq(a, b) == DLeq(a, b) /\ DLeq(b, a)
DLt(a, b) == ~DLeq(b, a)
DMul(a, b) == [m |-> a.m * b.m, e |-> a.e + b.e]
DTimes(a, k) == [m |-> a.m * k, e |-> a.e]
DShift(a, n) == [m |-> a.m, e |-> a.e + n]
DAdd(a, b) ==
    LET lo == Min(a.e, b.e)
    IN  [m |-> a.m * 2^(a.e - lo) + b.m * 2^(b.e - lo), e |-> lo]

\* |a - b| <= k * 2^-Prec * b: a is b up to k half-units in the last place
Within(a, b, k) ==
    /\ DLeq(DShift(a, Prec), DTimes(b, 2^Prec + k))
    /\ DLeq(DTimes(b, 2^Prec - k), DShift(a, Prec))

NonPositive(x) == IsNum(x) /\ (x.m = 0 \/ x.s = 1)
IsNormalPos(x) == IsNormal(x) /\ x.s = 0

ErrorsCalled == call.fn = "calculate_errors"
OptimalCalled == call.fn = "calculate_optimal_values"

\* The last call was calculate_errors with valid arguments
ValidCall ==
    /\ ErrorsCalled
    /\ IsFinitePos(call.eps)
    /\ \A i \in 1..Len(call.hs) : IsFinitePos(call.hs[i])

\* Each of the six computed series of the results has n entries
SeriesLen(n) ==
    /\ Len(results.err1) = n /\ Len(results.err2) = n
    /\ Len(results.trunc1) = n /\ Len(results.trunc2) = n
    /\ Len(results.round1) = n /\ Len(results.round2) = n

\* C1: a call of calculate_errors with a step size <= 0 anywhere in the
\* sequence ends with an error raised to the caller and returns no records.
C1_RejectsNonPositiveStep ==
    (ErrorsCalled /\ \E i \in 1..Len(call.hs) : NonPositive(call.hs[i]))
        => call.outcome = "raised" /\ results.kind # "dict"

\* C2: a call of either function with eps <= 0 ends with an error raised to
\* the caller instead of returning values computed from that eps.
C2_RejectsNonPositiveEps ==
    ((ErrorsCalled \/ OptimalCalled) /\ NonPositive(call.eps))
        => call.outcome = "raised"

\* C3: when a pass of the loop of calculate_errors raises, the call ends with
\* the error raised to the caller: it does not return, and it hands the caller
\* no None in place of a result.
C3_FailureIsRaised ==
    (ErrorsCalled /\ \E i \in 1..Len(call.hs) : ~call.isArr /\ Raises(call.hs[i]) # "none")
        => call.outcome = "raised" /\ ~(call.outcome = "returned" /\ results.kind = "None")

C8_PureAndSilent ==
    /\ ErrorsCalled =>
          /\ results = CalculateErrorsBody(call.hs, call.eps, call.isArr).ret
          /\ h_values = call.hs
          /\ ui = <<>>
    /\ OptimalCalled => optimal = calculate_optimal_values(call.eps) /\ ui = <<>>

\* The last calculate_errors call returned records for positive normal
\* arguments (no zero, subnormal, infinite or nan argument)
NormalRecords ==
    /\ results.kind = "dict"
    /\ results.h = h_values
    /\ IsNormalPos(inputs.eps)
    /\ \A i \in 1..Len(h_values) : IsNormalPos(h_values[i])

\* Record i holds positive normal bounds (nothing overflowed or underflowed)
NormalBounds(i) ==
    /\ IsNormalPos(results.trunc1[i]) /\ IsNormalPos(results.trunc2[i])
    /\ IsNormalPos(results.round1[i]) /\ IsNormalPos(results.round2[i])

\* C5 as stated, read in float arithmetic: in every record round_fwd is
\* 2 * round_ctr and trunc_ctr / trunc_fwd is h / 3.
C5_ExactIdentities ==
    NormalRecords =>
        \A i \in 1..Len(h_values) :
            /\ results.round1[i] = FMul(Two, results.round2[i])
            /\ FDiv(results.trunc2[i], results.trunc1[i]) = FDiv(h_values[i], Three)

\* C5, amended: for positive h and eps whose bounds are all in the normal
\* range, the record for h has trunc_fwd = h/2 and round_fwd = 2 * round_ctr
\* exactly, round_ctr and round_fwd equal to eps/h and 2*eps/h rounded once
\* (relative error at most 2^-Prec), trunc_ctr equal to h^2/6 rounded twice
\* (relative error at most 3 * 2^-Prec), and therefore trunc_ctr / trunc_fwd
\* equal to h/3 only up to a relative error of 3 * 2^-Prec.
C5_BoundsUpToRounding ==
    NormalRecords =>
        \A i \in 1..Len(h_values) :
            NormalBounds(i) =>
                /\ DEq(DTimes(Dy(results.trunc1[i]), 2), Dy(h_values[i]))
                /\ DEq(Dy(results.round1[i]), DTimes(Dy(results.round2[i]), 2))
                /\ Within(Dy(inputs.eps), DMul(Dy(results.round2[i]), Dy(h_values[i])), 1)
                /\ Within(DTimes(Dy(inputs.eps), 2),
                          DMul(Dy(results.round1[i]), Dy(h_values[i])), 1)
                /\ Within(DTimes(Dy(results.trunc2[i]), 6),
                          DMul(Dy(h_values[i]), Dy(h_values[i])), 3)
                /\ Within(DTimes(Dy(results.trunc2[i]), 3),
                          DMul(Dy(h_values[i]), Dy(results.trunc1[i])), 3)

\* C5 witness: a record whose float ratio trunc_ctr / trunc_fwd is not the
\* float h / 3, and whose trunc_ctr is not h^2/6 exactly.
C5_Witness ==
    /\ NormalRecords
    /\ Len(h_values) = 1
    /\ NormalBounds(1)
    /\ FDiv(results.trunc2[1], results.trunc1[1]) # FDiv(h_values[1], Three)
    /\ ~DEq(DTimes(Dy(results.trunc2[1]), 6), DMul(Dy(h_values[1]), Dy(h_values[1])))

\* h2 < h1, and h2 * (1 + 4 * 2^-Prec) <= h1
Decreases(h1, h2) == DLt(Dy(h2), Dy(h1))
Separated(h1, h2) == DLeq(DTimes(Dy(h2), 2^Prec + 4), DShift(Dy(h1), Prec))

\* The sweep is strictly decreasing and has at least PointsMin points
DecreasingSweep ==
    /\ Len(h_values) >= PointsMin
    /\ \A i \in 1..Len(h_values) - 1 : Decreases(h_values[i], h_values[i + 1])

\* C9 as stated: along a strictly decreasing sweep the rounding bounds are
\* strictly increasing and the truncation bounds strictly decreasing.
C9_StrictlyMonotone ==
    (NormalRecords /\ DecreasingSweep) =>
        \A i \in 1..Len(h_values) - 1 :
            /\ DLt(Dy(results.round1[i]), Dy(results.round1[i + 1]))
            /\ DLt(Dy(results.round2[i]), Dy(results.round2[i + 1]))
            /\ DLt(Dy(results.trunc1[i + 1]), Dy(results.trunc1[i]))
            /\ DLt(Dy(results.trunc2[i + 1]), Dy(results.trunc2[i]))

\* C9, amended: from a record to the next one with a smaller step size (all
\* bounds in the normal range), round_fwd and round_ctr do not decrease,
\* trunc_ctr does not increase and trunc_fwd strictly decreases; all four
\* are strictly monotone when the step sizes differ by at least a factor
\* 1 + 4 * 2^-Prec.  Closer step sizes can give equal bounds.
C9_MonotoneUpToTies ==
    NormalRecords =>
        \A i \in 1..Len(h_values) - 1 :
            (Decreases(h_values[i], h_values[i + 1]) /\ NormalBounds(i) /\ NormalBounds(i + 1)) =>
                /\ DLeq(Dy(results.round1[i]), Dy(results.round1[i + 1]))
                /\ DLeq(Dy(results.round2[i]), Dy(results.round2[i + 1]))
                /\ DLt(Dy(results.trunc1[i + 1]), Dy(results.trunc1[i]))
                /\ DLeq(Dy(results.trunc2[i + 1]), Dy(results.trunc2[i]))
                /\ Separated(h_values[i], h_values[i + 1]) =>
                      /\ DLt(Dy(results.round1[i]), Dy(results.round1[i + 1]))
                      /\ DLt(Dy(results.round2[i]), Dy(results.round2[i + 1]))
                      /\ DLt(Dy(results.trunc2[i + 1]), Dy(results.trunc2[i]))

\* C9 witness: the records of a strictly decreasing sweep of PointsMin
\* points, each step size separated from the next.
C9_Witness ==
    /\ NormalRecords /\ DecreasingSweep
    /\ \A i \in 1..Len(h_values) : NormalBounds(i)
    /\ \A i \in 1..Len(h_values) - 1 : Separated(h_values[i], h_values[i + 1])

\* calculate_optimal_values has returned for a positive normal eps
NormalOptimal ==
    /\ optimal # NoOptimal
    /\ IsNormalPos(inputs.eps)
    /\ IsNormalPos(optimal.forward.h_opt) /\ IsNormalPos(optimal.forward.min_error)
    /\ IsNormalPos(optimal.central.h_opt) /\ IsNormalPos(optimal.central.min_error)

\* The total bounds trunc + round of the two formulas at step size h, summed
\* exactly from the values calculate_errors computes
TotalForward(h, eps) == DAdd(Dy(Trunc1(h)), Dy(Round1(h, eps)))
TotalCentral(h, eps) == DAdd(Dy(Trunc2(h)), Dy(Round2(h, eps)))

\* Step sizes to compare h_opt with: 3/2 and 3/4 of it
Probes(h_opt) == {FMul(h_opt, Flt(3, -1)), FMul(h_opt, Flt(3, -2))}

\* C6: the forward h_opt has the least total bound trunc_fwd + round_fwd, no
\* other step size has a smaller one.
C6_ForwardOptimumMinimizes ==
    NormalOptimal =>
        \A h \in Probes(optimal.forward.h_opt) :
            DLeq(TotalForward(optimal.forward.h_opt, inputs.eps), TotalForward(h, inputs.eps))

\* The binary exponent of 3 * eps, and the tolerance of the cube in units of
\* 2^-Prec: the exponent 1/3 is itself rounded, which moves the cube root by
\* an amount that grows with the size of that exponent.
Exp3Eps == DTop(DTimes(Dy(inputs.eps), 3)) - 1
CubeTol == (Abs(Exp3Eps) + 9) \div 2

\* C7 as stated, read in float arithmetic: h_opt_fwd squared is 2*eps,
\* h_opt_ctr cubed is 3*eps, min_error_fwd is h_opt_fwd / 2 and
\* min_error_ctr is h_opt_ctr^2 / 6.
C7_ClosedFormsInvertExactly ==
    NormalOptimal =>
        /\ FMul(optimal.forward.h_opt, optimal.forward.h_opt) = FMul(Two, inputs.eps)
        /\ FMul(FMul(optimal.central.h_opt, optimal.central.h_opt), optimal.central.h_opt)
              = FMul(Three, inputs.eps)
        /\ optimal.forward.min_error = FDiv(optimal.forward.h_opt, Two)
        /\ optimal.central.min_error
              = FDiv(FMul(optimal.central.h_opt, optimal.central.h_opt), Six)

\* C7, amended: for a positive normal eps the closed forms invert up to
\* rounding: h_opt_fwd^2 is 2*eps and min_error_fwd is h_opt_fwd / 2 within a
\* relative error of 3 * 2^-Prec, min_error_ctr is h_opt_ctr^2 / 6 within
\* 5 * 2^-Prec, and h_opt_ctr^3 is 3*eps within
\* ((|exponent of 3*eps| + 9) / 2) * 2^-Prec; the values are those the
\* function computes from eps alone, whatever step sizes were processed.
C7_ClosedFormsInvertUpToRounding ==
    NormalOptimal =>
        /\ Within(DMul(Dy(optimal.forward.h_opt), Dy(optimal.forward.h_opt)),
                  DTimes(Dy(inputs.eps), 2), 3)
        /\ Within(DTimes(Dy(optimal.forward.min_error), 2), Dy(optimal.forward.h_opt), 3)
        /\ Within(DTimes(Dy(optimal.central.min_error), 6),
                  DMul(Dy(optimal.central.h_opt), Dy(optimal.central.h_opt)), 5)
        /\ CubeTol < 2^Prec =>
              Within(DMul(DMul(Dy(optimal.central.h_opt), Dy(optimal.central.h_opt)),
                          Dy(optimal.central.h_opt)),
                     DTimes(Dy(inputs.eps), 3), CubeTol)
        /\ optimal = calculate_optimal_values(inputs.eps)

\* C7 witness: optimal values whose squares and cubes are not exact, computed
\* after an array of step sizes was processed.
C7_Witness ==
    /\ NormalOptimal
    /\ results.kind = "dict" /\ Len(h_values) > 0
    /\ CubeTol < 2^(Prec - 2)
    /\ FMul(optimal.forward.h_opt, optimal.forward.h_opt) # FMul(Two, inputs.eps)
    /\ ~DEq(DMul(DMul(Dy(optimal.central.h_opt), Dy(optimal.central.h_opt)),
                 Dy(optimal.central.h_opt)),
            DTimes(Dy(inputs.eps), 3))

\* The run of main() is past calculate_errors
Computed == pc \in {"computed", "forward drawn", "central drawn", "done", "crashed"}

\* C10: in every run of main(), for all control values, the step sizes and
\* eps passed to calculate_errors are positive, calculate_errors returns the
\* dictionary (no error is shown, no plot is asked of None), and where a plot
\* is drawn the seven series have the length of the step-size array.
C10_MainNeverTakesFailurePath ==
    Computed =>
        /\ pc # "crashed"
        /\ IsFinitePos(inputs.eps)
        /\ Len(h_values) = inputs.num_points
        /\ \A i \in 1..Len(h_values) : IsFinitePos(h_values[i])
        /\ results.kind = "dict"
        /\ results.h = h_values
        /\ SeriesLen(Len(h_values))
        /\ \A j \in 1..Len(ui) : ui[j].type = "plot" /\ Len(ui[j].x) = Len(h_values)

\* C10 witness: both plots are drawn for PointsMax step sizes, with the
\* exponent controls in the reverse of their default order.
C10_Witness ==
    /\ pc = "central drawn"
    /\ inputs.h_min = ExpMax /\ inputs.h_max = ExpMin
    /\ inputs.num_points = PointsMax
    /\ Len(ui) = 2
    /\ Len(results.round2) = PointsMax

=============================================================================
